---- MODULE Spec2Model ----
(***************************************************************************)
(* Coin Tapper: tap to earn coins, redeem them at fixed tiers, withdrawal  *)
(* history (src/src/App.tsx, src/src/components/*.tsx, src/unnamed/        *)
(* part_001) and the stand-alone PayPal payout HTTP function               *)
(* (src/unnamed/part_000).                                                 *)
(*                                                                         *)
(* Spec       : the shipped application.  One user, several browser        *)
(*              sessions of that user on one persistence store.  A React   *)
(*              handler runs up to its first await in one step; what runs  *)
(*              after an await is a later step that still sees the values  *)
(*              the handler captured when it was called.                   *)
(* PayoutSpec : one invocation after another of the payout HTTP function.  *)
(***************************************************************************)
EXTENDS Integers, Sequences, FiniteSets

(***************************************************************************)
(* Bounds of the model.                                                    *)
(***************************************************************************)
MaxGestures == 6
MaxTaps     == 3
MaxAttempts == 2
MaxThrows   == 1

\* two browser sessions of the one user
Sessions == {1, 2}

(***************************************************************************)
(* Text.  A string is a sequence of one-character strings.                 *)
(***************************************************************************)
IsSpace(c) == c = " "

RECURSIVE TrimStart(_)
TrimStart(e) ==
    IF e # <<>> /\ IsSpace(Head(e)) THEN TrimStart(Tail(e)) ELSE e

RECURSIVE TrimEnd(_)
TrimEnd(e) ==
    IF e # <<>> /\ IsSpace(e[Len(e)]) THEN TrimEnd(SubSeq(e, 1, Len(e) - 1)) ELSE e

\* String.prototype.trim
Trim(e) == TrimEnd(TrimStart(e))

NoEmail     == <<>>
BlankEmail  == <<" ">>
NotAnEmail  == <<"n", "o", "t", "a", "n", "e", "m", "a", "i", "l">>
ValidEmail  == <<"a", "@", "b", ".", "c", "o", "m">>

\* what the user may type into the PayPal email field
TypedEmails == {NoEmail, BlankEmail, NotAnEmail, ValidEmail}

(***************************************************************************)
(* RedeemCoins.tsx: the tier table and the pure helpers.                   *)
(***************************************************************************)
redeemTiers ==
    << [coins |-> 5000,    amount |-> 1,   label |-> "$1"],
       [coins |-> 10000,   amount |-> 5,   label |-> "$5"],
       [coins |-> 100000,  amount |-> 20,  label |-> "$20"],
       [coins |-> 1000000, amount |-> 100, label |-> "$100"] >>

Tiers == {redeemTiers[i] : i \in DOMAIN redeemTiers}

\* selectedTier = null
NoTier == [coins |-> 0, amount |-> 0, label |-> ""]

canAfford_Strict(coins, tierCoins) == coins > tierCoins

canAfford(coins, tierCoins) == coins >= tierCoins

\* Math.min((coins / tierCoins) * 100, 100), as the exact fraction num / den
getProgressPercentage(coins, tierCoins) ==
    IF coins * 100 < 100 * tierCoins
    THEN [num |-> coins * 100, den |-> tierCoins]
    ELSE [num |-> 100, den |-> 1]

\* handleRedeem, first guard: !selectedTier || !paypalEmail.trim()
MissingInformation(tier, email) == tier = NoTier \/ Trim(email) = <<>>

\* handleRedeem, second guard: coins < selectedTier.coins
InsufficientCoins_Never(coins, tier) == FALSE

InsufficientCoins_ZeroOnly(coins, tier) == coins <= 0

InsufficientCoins(coins, tier) == coins < tier.coins

(***************************************************************************)
(* App.tsx: records and the arithmetic of updateWithdrawal.                *)
(***************************************************************************)
\* userStats = null
NoStats == [id |-> 0, totalCoins |-> 0, totalWithdrawn |-> 0]

\* TapToEarn.handleTap: coins + 100
TapReward == 100

NewCoins(coins) == coins + TapReward

NewCoinCount_AddsBack(stats, coinsSpent) == stats.totalCoins + coinsSpent

NewCoinCount(stats, coinsSpent) == stats.totalCoins - coinsSpent

NewTotalWithdrawn(stats, amount) == stats.totalWithdrawn + amount

WithdrawalStatus_Pending == "pending"

WithdrawalStatus == "completed"

WithdrawalRecord(amount, coinsSpent, paypalEmail) ==
    [amount |-> amount, coinsSpent |-> coinsSpent,
     paypalEmail |-> paypalEmail, status |-> WithdrawalStatus]

\* WithdrawalHistory.loadWithdrawals: orderBy createdAt desc, limit 50
HistoryLimit == 50

RECURSIVE Reverse(_)
Reverse(q) == IF q = <<>> THEN <<>> ELSE Append(Reverse(Tail(q)), Head(q))

ListWithdrawals(all) ==
    LET desc == Reverse(all)
    IN  IF Len(desc) > HistoryLimit THEN SubSeq(desc, 1, HistoryLimit) ELSE desc

RemoveAt(q, i) == SubSeq(q, 1, i - 1) \o SubSeq(q, i + 1, Len(q))

RECURSIVE SumCoinsSpent(_)
SumCoinsSpent(q) ==
    IF q = <<>> THEN 0 ELSE Head(q).coinsSpent + SumCoinsSpent(Tail(q))

(***************************************************************************)
(* The payout HTTP function (src/unnamed/part_000): values.                *)
(***************************************************************************)
\* a field of the JSON body: absent (undefined) or present with a value
Absent(zero) == [present |-> FALSE, value |-> zero]
Present(v)   == [present |-> TRUE, value |-> v]

\* !x for a number, and for a string
FalsyNumber(f) == ~f.present \/ f.value = 0
FalsyString(f) == ~f.present \/ f.value = <<>>
FalsyId(f)     == ~f.present \/ f.value = ""

\* [^\s@]
NotSpaceNorAt(c) == ~IsSpace(c) /\ c # "@"

AllNotSpaceNorAt(e, from, to) == \A k \in from..to : NotSpaceNorAt(e[k])

\* /^[^\s@]+@[^\s@]+\.[^\s@]+$/.test(e): some "@" at i and some "." at j
\* split e into three non-empty runs of characters that are neither
\* whitespace nor "@"
EmailRegexTest(e) ==
    \E i \in 1..Len(e) : \E j \in 1..Len(e) :
       /\ e[i] = "@"
       /\ e[j] = "."
       /\ 1 < i
       /\ i + 1 < j
       /\ j < Len(e)
       /\ AllNotSpaceNorAt(e, 1, i - 1)
       /\ AllNotSpaceNorAt(e, i + 1, j - 1)
       /\ AllNotSpaceNorAt(e, j + 1, Len(e))

NoDotEmail    == <<"a", "@", "b">>
NoDomainEmail == <<"a", "@", ".", "c">>
SpaceEmail    == <<"a", " ", "@", "b", ".", "c">>
TwoAtEmail    == <<"a", "@", "b", "@", "c", ".", "d">>

RequestMethods == {"OPTIONS", "GET", "POST"}

RequestEmails ==
    {Absent(<<>>)} \cup
    {Present(e) : e \in {NoEmail, NotAnEmail, ValidEmail, NoDotEmail,
                         NoDomainEmail, SpaceEmail, TwoAtEmail}}

RequestAmounts == {Absent(0), Present(0), Present(5)}
RequestCoins   == {Absent(0), Present(0), Present(10000)}
RequestUserIds == {Absent(""), Present(""), Present("u1")}

\* the requests the function may receive; parses says whether req.json()
\* returns or throws
Requests ==
    [method : RequestMethods, parses : BOOLEAN, email : RequestEmails,
     amount : RequestAmounts, coins : RequestCoins, userId : RequestUserIds]

\* Deno.env.get of PAYPAL_CLIENT_ID and PAYPAL_CLIENT_SECRET ("" = unset)
Environments == [clientId : {"", "id"}, clientSecret : {"", "secret"}]

\* how a fetch of the gateway ends: a 2xx response whose body parses, a 2xx
\* response whose body does not have the expected JSON, a non-2xx response,
\* or a rejected promise
FetchOutcomes == {"ok", "okBadBody", "notOk", "throws"}

Is2xx(outcome) == outcome \in {"ok", "okBadBody"}

GatewayBatchIds == {"BATCH1", "BATCH2"}
GatewayStatuses == {"PENDING", "SUCCESS"}

NoRequest ==
    [method |-> "", parses |-> FALSE, email |-> Absent(<<>>),
     amount |-> Absent(0), coins |-> Absent(0), userId |-> Absent("")]

NoEnvironment == [clientId |-> "", clientSecret |-> ""]

NoPayoutResp == [outcome |-> "none", batchId |-> "", batchStatus |-> ""]

\* new Response(body, init) without init.status
DefaultStatus == 200

CorsPreflightHeaders ==
    [allowOrigin |-> "*", allowMethods |-> "POST, OPTIONS",
     allowHeaders |-> "Content-Type, Authorization", contentType |-> ""]

JsonHeaders ==
    [allowOrigin |-> "*", allowMethods |-> "", allowHeaders |-> "",
     contentType |-> "application/json"]

NoBody ==
    [error |-> "", details |-> "", success |-> FALSE, batchId |-> "",
     batchStatus |-> "", amount |-> 0, email |-> <<>>]

NoResponse == [status |-> 0, headers |-> JsonHeaders, body |-> NoBody]

ErrorResponse(status, error) ==
    [status |-> status, headers |-> JsonHeaders,
     body |-> [NoBody EXCEPT !.error = error]]

CaughtResponse_Status400(message) ==
    [status |-> 400, headers |-> JsonHeaders,
     body |-> [NoBody EXCEPT !.error = "Internal server error",
                             !.details = message]]

\* the catch block: 500 {error: 'Internal server error', details}
CaughtResponse(message) ==
    [status |-> 500, headers |-> JsonHeaders,
     body |-> [NoBody EXCEPT !.error = "Internal server error",
                             !.details = message]]

PreflightResponse ==
    [status |-> DefaultStatus, headers |-> CorsPreflightHeaders, body |-> NoBody]

\* {success: true, batchId, status, message}; the message names amount and email
SuccessResponse(req, batchId, batchStatus) ==
    [status |-> DefaultStatus, headers |-> JsonHeaders,
     body |-> [NoBody EXCEPT !.success = TRUE, !.batchId = batchId,
                             !.batchStatus = batchStatus,
                             !.amount = req.amount.value,
                             !.email = req.email.value]]

MissingFields(req) ==
    \/ FalsyString(req.email)
    \/ FalsyNumber(req.amount)
    \/ FalsyNumber(req.coins)
    \/ FalsyId(req.userId)

CredentialsMissing(env) == env.clientId = "" \/ env.clientSecret = ""

EarlyResponse_CredentialsFirst(req, env) ==
    IF req.method = "OPTIONS" THEN PreflightResponse
    ELSE IF req.method # "POST" THEN ErrorResponse(405, "Method not allowed")
    ELSE IF ~req.parses THEN CaughtResponse("json")
    ELSE IF CredentialsMissing(env)
         THEN ErrorResponse(500, "PayPal credentials not configured")
    ELSE IF MissingFields(req) THEN ErrorResponse(400, "Missing required fields")
    ELSE IF ~EmailRegexTest(req.email.value)
         THEN ErrorResponse(400, "Invalid email format")
    ELSE NoResponse

\* the handler up to its first fetch: the Response it returns, or NoResponse
\* when it goes on to request the token
EarlyResponse(req, env) ==
    IF req.method = "OPTIONS" THEN PreflightResponse
    ELSE IF req.method # "POST" THEN ErrorResponse(405, "Method not allowed")
    ELSE IF ~req.parses THEN CaughtResponse("json")
    ELSE IF MissingFields(req) THEN ErrorResponse(400, "Missing required fields")
    ELSE IF ~EmailRegexTest(req.email.value)
         THEN ErrorResponse(400, "Invalid email format")
    ELSE IF CredentialsMissing(env)
         THEN ErrorResponse(500, "PayPal credentials not configured")
    ELSE NoResponse

\* after the token fetch: the Response returned, or NoResponse when the
\* handler goes on to request the payout
TokenResponse_IgnoresStatus(outcome) ==
    IF outcome = "throws" THEN CaughtResponse("fetch")
    ELSE IF outcome = "okBadBody" THEN CaughtResponse("json")
    ELSE NoResponse

TokenResponse(outcome) ==
    IF outcome = "throws" THEN CaughtResponse("fetch")
    ELSE IF outcome = "notOk"
         THEN ErrorResponse(500, "Failed to authenticate with PayPal")
    ELSE IF outcome = "okBadBody" THEN CaughtResponse("json")
    ELSE NoResponse

\* after the payout fetch: the Response returned
PayoutResponse_IgnoresStatus(req, outcome, batchId, batchStatus) ==
    IF outcome = "throws" THEN CaughtResponse("fetch")
    ELSE IF outcome = "okBadBody" THEN CaughtResponse("json")
    ELSE SuccessResponse(req, batchId, batchStatus)

PayoutResponse(req, outcome, batchId, batchStatus) ==
    IF outcome = "throws" THEN CaughtResponse("fetch")
    ELSE IF outcome = "notOk" THEN ErrorResponse(500, "Failed to process payout")
    ELSE IF outcome = "okBadBody" THEN CaughtResponse("json")
    ELSE SuccessResponse(req, batchId, batchStatus)

(***************************************************************************)
(* State.                                                                  *)
(***************************************************************************)
VARIABLES
    dbStats,        \* persistence: the userStats records of the user, by id
    dbWithdrawals,  \* persistence: the withdrawals records of the user, oldest first
    userStats,      \* App: useState userStats, per session (NoStats = null)
    loadPc,         \* App.loadUserStats: "none" | "listing" | "creating" | "done"
                    \* ("none": this session has not opened the application)
    tapUpdates,     \* App.updateCoins: the calls in flight, per session
    redemptions,    \* handleRedeem / updateWithdrawal: the calls in flight, per
                    \* session; pc is "pause" | "update" | "applied"
    activeTab,      \* Tabs: "tap" | "redeem" | "history"
    selectedTier,   \* RedeemCoins: useState selectedTier
    paypalEmail,    \* RedeemCoins: useState paypalEmail
    isProcessing,   \* RedeemCoins: useState isProcessing
    isDialogOpen,   \* RedeemCoins: useState isDialogOpen
    toast,          \* the title of the last toast shown
    withdrawals,    \* WithdrawalHistory: useState withdrawals
    historyLoading, \* WithdrawalHistory.loadWithdrawals is in flight
    priorTaps,      \* number of tap events before the first state
    tapCount,       \* number of tap events so far
    ignoredTaps,    \* number of tap events updateCoins returned from at once
    attempts,       \* number of handleRedeem calls so far, per session
    throws,         \* number of persistence calls that threw so far
    gestures,       \* number of user gestures that spend the budget so far
    fnPc,           \* payout function: "idle" | "token" | "payout" | "done"
    fnReq,          \* payout function: the request being served
    fnEnv,          \* payout function: the two secrets of the environment
    fnBodyRead,     \* payout function: req.json() was called
    fnTokenCalls,   \* payout function: token requests issued by this invocation
    fnPayoutCalls,  \* payout function: payout requests issued by this invocation
    fnTokenResp,    \* payout function: how the token request ended ("none" yet)
    fnPayoutResp,   \* payout function: how the payout request ended, and its body
    fnResponse,     \* payout function: the Response returned
    fnResponses     \* payout function: Responses returned by this invocation

appVars == << dbStats, dbWithdrawals, userStats, loadPc, tapUpdates, redemptions,
              activeTab, selectedTier, paypalEmail, isProcessing, isDialogOpen,
              toast, withdrawals, historyLoading, priorTaps, tapCount,
              ignoredTaps, attempts, throws, gestures >>

fnVars == << fnPc, fnReq, fnEnv, fnBodyRead, fnTokenCalls, fnPayoutCalls,
             fnTokenResp, fnPayoutResp, fnResponse, fnResponses >>

vars == << appVars, fnVars >>

\* App.tsx: userStats?.totalCoins || 0, the coins prop of both components
Coins(s) == IF userStats[s] = NoStats THEN 0 ELSE userStats[s].totalCoins

\* no invocation of the payout function is being served
PayoutIdle ==
    /\ fnPc = "idle"
    /\ fnReq = NoRequest
    /\ fnEnv = NoEnvironment
    /\ fnBodyRead = FALSE
    /\ fnTokenCalls = 0
    /\ fnPayoutCalls = 0
    /\ fnTokenResp = "none"
    /\ fnPayoutResp = NoPayoutResp
    /\ fnResponse = NoResponse
    /\ fnResponses = 0

(***************************************************************************)
(* The store of a user who played alone in one session before: every tap   *)
(* was persisted before the next one, nothing was redeemed yet.            *)
(***************************************************************************)
EarlierBalances == {9800}

Init ==
    /\ \/ /\ dbStats = <<>>
          /\ priorTaps = 0
       \/ \E b \in EarlierBalances :
             /\ dbStats = << [totalCoins |-> b, totalWithdrawn |-> 0] >>
             /\ priorTaps = b \div TapReward
    /\ tapCount = priorTaps
    /\ ignoredTaps = 0
    /\ dbWithdrawals = <<>>
    /\ userStats = [s \in Sessions |-> NoStats]
    /\ loadPc = [s \in Sessions |-> "none"]
    /\ tapUpdates = [s \in Sessions |-> <<>>]
    /\ redemptions = [s \in Sessions |-> <<>>]
    /\ activeTab = [s \in Sessions |-> "tap"]
    /\ selectedTier = [s \in Sessions |-> NoTier]
    /\ paypalEmail = [s \in Sessions |-> NoEmail]
    /\ isProcessing = [s \in Sessions |-> FALSE]
    /\ isDialogOpen = [s \in Sessions |-> FALSE]
    /\ toast = [s \in Sessions |-> "none"]
    /\ withdrawals = [s \in Sessions |-> <<>>]
    /\ historyLoading = [s \in Sessions |-> FALSE]
    /\ attempts = [s \in Sessions |-> 0]
    /\ throws = 0
    /\ gestures = 0
    /\ PayoutIdle

(***************************************************************************)
(* App.loadUserStats (the effect that runs once the user is known).        *)
(***************************************************************************)
\* the user opens the application and is signed in: the effect calls
\* loadUserStats, which issues userStats.list
OpenApp(s) ==
    /\ loadPc[s] = "none"
    /\ gestures < MaxGestures
    /\ gestures' = gestures + 1
    /\ loadPc' = [loadPc EXCEPT ![s] = "listing"]
    /\ UNCHANGED fnVars
    /\ UNCHANGED << dbStats, dbWithdrawals, userStats, tapUpdates, redemptions,
                    activeTab, selectedTier, paypalEmail, isProcessing,
                    isDialogOpen, toast, withdrawals, historyLoading, priorTaps,
                    tapCount, attempts, throws,
                    ignoredTaps >>

\* userStats.list({where: {userId}, limit: 1}) answers; the store does not
\* say which record comes first when there are several
LoadUserStatsList(s) ==
    /\ loadPc[s] = "listing"
    /\ IF Len(dbStats) = 0
       THEN /\ loadPc' = [loadPc EXCEPT ![s] = "creating"]
            /\ UNCHANGED userStats
       ELSE /\ \E i \in DOMAIN dbStats :
                 userStats' = [userStats EXCEPT ![s] =
                     [id |-> i, totalCoins |-> dbStats[i].totalCoins,
                      totalWithdrawn |-> dbStats[i].totalWithdrawn]]
            /\ loadPc' = [loadPc EXCEPT ![s] = "done"]
    /\ UNCHANGED fnVars
    /\ UNCHANGED << dbStats, dbWithdrawals, tapUpdates, redemptions, activeTab,
                    selectedTier, paypalEmail, isProcessing, isDialogOpen, toast,
                    withdrawals, historyLoading, priorTaps, tapCount, attempts,
                    throws, gestures,
                    ignoredTaps >>

\* userStats.create({userId, totalCoins: 0, totalWithdrawn: 0.0}) answers
LoadUserStatsCreate(s) ==
    /\ loadPc[s] = "creating"
    /\ dbStats' = Append(dbStats, [totalCoins |-> 0, totalWithdrawn |-> 0])
    /\ userStats' = [userStats EXCEPT ![s] =
           [id |-> Len(dbStats) + 1, totalCoins |-> 0, totalWithdrawn |-> 0]]
    /\ loadPc' = [loadPc EXCEPT ![s] = "done"]
    /\ UNCHANGED fnVars
    /\ UNCHANGED << dbWithdrawals, tapUpdates, redemptions, activeTab,
                    selectedTier, paypalEmail, isProcessing, isDialogOpen, toast,
                    withdrawals, historyLoading, priorTaps, tapCount, attempts,
                    throws, gestures,
                    ignoredTaps >>

\* either call throws: caught, logged, userStats stays null
LoadUserStatsThrows(s) ==
    /\ loadPc[s] \in {"listing", "creating"}
    /\ throws < MaxThrows
    /\ throws' = throws + 1
    /\ loadPc' = [loadPc EXCEPT ![s] = "done"]
    /\ UNCHANGED fnVars
    /\ UNCHANGED << dbStats, dbWithdrawals, userStats, tapUpdates, redemptions,
                    activeTab, selectedTier, paypalEmail, isProcessing,
                    isDialogOpen, toast, withdrawals, historyLoading, priorTaps,
                    tapCount, attempts, gestures,
                    ignoredTaps >>

(***************************************************************************)
(* TapToEarn.handleTap -> App.updateCoins.                                 *)
(***************************************************************************)
\* handleTap: onCoinsUpdate(coins + 100); updateCoins returns at once while
\* userStats is null, else it issues userStats.update(id, {totalCoins})
HandleTap(s) ==
    /\ loadPc[s] # "none"
    /\ activeTab[s] = "tap"
    /\ tapCount < priorTaps + MaxTaps
    /\ tapCount' = tapCount + 1
    /\ IF userStats[s] = NoStats
       THEN /\ ignoredTaps' = ignoredTaps + 1
            /\ UNCHANGED tapUpdates
       ELSE /\ tapUpdates' = [tapUpdates EXCEPT ![s] = Append(@,
                   [stats |-> userStats[s], newCoinCount |-> NewCoins(Coins(s)),
                    stage |-> "sent"])]
            /\ UNCHANGED ignoredTaps
    /\ gestures < MaxGestures
    /\ gestures' = gestures + 1
    /\ UNCHANGED fnVars
    /\ UNCHANGED << dbStats, dbWithdrawals, userStats, loadPc, redemptions,
                    activeTab, selectedTier, paypalEmail, isProcessing,
                    isDialogOpen, toast, withdrawals, historyLoading, priorTaps,
                    attempts, throws >>

\* the store applies the update of updateCoins
UpdateCoinsApplied(s, i) ==
    /\ i \in DOMAIN tapUpdates[s]
    /\ tapUpdates[s][i].stage = "sent"
    /\ dbStats' = [dbStats EXCEPT ![tapUpdates[s][i].stats.id].totalCoins =
                       tapUpdates[s][i].newCoinCount]
    /\ tapUpdates' = [tapUpdates EXCEPT ![s][i].stage = "applied"]
    /\ UNCHANGED fnVars
    /\ UNCHANGED << dbWithdrawals, userStats, loadPc, redemptions, activeTab,
                    selectedTier, paypalEmail, isProcessing, isDialogOpen, toast,
                    withdrawals, historyLoading, priorTaps, tapCount, attempts,
                    throws, gestures,
                    ignoredTaps >>

\* the await of updateCoins returns: setUserStats({...userStats, totalCoins})
\* with the userStats the call captured
UpdateCoinsReturns(s, i) ==
    /\ i \in DOMAIN tapUpdates[s]
    /\ tapUpdates[s][i].stage = "applied"
    /\ userStats' = [userStats EXCEPT ![s] =
           [tapUpdates[s][i].stats EXCEPT !.totalCoins = tapUpdates[s][i].newCoinCount]]
    /\ tapUpdates' = [tapUpdates EXCEPT ![s] = RemoveAt(@, i)]
    /\ UNCHANGED fnVars
    /\ UNCHANGED << dbStats, dbWithdrawals, loadPc, redemptions, activeTab,
                    selectedTier, paypalEmail, isProcessing, isDialogOpen, toast,
                    withdrawals, historyLoading, priorTaps, tapCount, attempts,
                    throws, gestures,
                    ignoredTaps >>

\* the update of updateCoins throws: caught, logged
UpdateCoinsThrows(s, i) ==
    /\ i \in DOMAIN tapUpdates[s]
    /\ tapUpdates[s][i].stage = "sent"
    /\ throws < MaxThrows
    /\ throws' = throws + 1
    /\ tapUpdates' = [tapUpdates EXCEPT ![s] = RemoveAt(@, i)]
    /\ UNCHANGED fnVars
    /\ UNCHANGED << dbStats, dbWithdrawals, userStats, loadPc, redemptions,
                    activeTab, selectedTier, paypalEmail, isProcessing,
                    isDialogOpen, toast, withdrawals, historyLoading, priorTaps,
                    tapCount, attempts, gestures,
                    ignoredTaps >>

(***************************************************************************)
(* Tabs (App.tsx): a tab's content is mounted only while the tab is        *)
(* selected; a component that is mounted again starts from its initial     *)
(* state, and WithdrawalHistory loads on mount.  The confirm dialog is     *)
(* modal: nothing behind it can be clicked.                                *)
(***************************************************************************)
DialogShown(s) == isDialogOpen[s] /\ selectedTier[s] # NoTier

Unmounted(q) == [i \in DOMAIN q |-> [q[i] EXCEPT !.mounted = FALSE]]

SwitchTab(s, t) ==
    /\ loadPc[s] # "none"
    /\ t \in {"tap", "redeem", "history"}
    /\ t # activeTab[s]
    /\ ~DialogShown(s)
    /\ activeTab' = [activeTab EXCEPT ![s] = t]
    /\ IF activeTab[s] = "redeem"
       THEN /\ selectedTier' = [selectedTier EXCEPT ![s] = NoTier]
            /\ paypalEmail' = [paypalEmail EXCEPT ![s] = NoEmail]
            /\ isProcessing' = [isProcessing EXCEPT ![s] = FALSE]
            /\ isDialogOpen' = [isDialogOpen EXCEPT ![s] = FALSE]
            /\ redemptions' = [redemptions EXCEPT ![s] = Unmounted(@)]
       ELSE UNCHANGED << selectedTier, paypalEmail, isProcessing, isDialogOpen,
                         redemptions >>
    /\ withdrawals' = [withdrawals EXCEPT ![s] = <<>>]
    /\ historyLoading' = [historyLoading EXCEPT ![s] = (t = "history")]
    /\ gestures < MaxGestures
    /\ gestures' = gestures + 1
    /\ UNCHANGED fnVars
    /\ UNCHANGED << dbStats, dbWithdrawals, userStats, loadPc, tapUpdates, toast,
                    priorTaps, tapCount, attempts, throws,
                    ignoredTaps >>

\* WithdrawalHistory.loadWithdrawals: the list answers, setWithdrawals(data)
LoadWithdrawals(s) ==
    /\ historyLoading[s]
    /\ withdrawals' = [withdrawals EXCEPT ![s] = ListWithdrawals(dbWithdrawals)]
    /\ historyLoading' = [historyLoading EXCEPT ![s] = FALSE]
    /\ UNCHANGED fnVars
    /\ UNCHANGED << dbStats, dbWithdrawals, userStats, loadPc, tapUpdates,
                    redemptions, activeTab, selectedTier, paypalEmail,
                    isProcessing, isDialogOpen, toast, priorTaps, tapCount,
                    attempts, throws, gestures,
                    ignoredTaps >>

(***************************************************************************)
(* RedeemCoins.tsx: the tier buttons, the dialog, handleRedeem.            *)
(***************************************************************************)
\* the tier's Button: disabled={!affordable}, onClick sets the tier and the
\* DialogTrigger opens the dialog
TierButtonDisabled(s, t) == ~canAfford(Coins(s), t.coins)

SelectTier(s, t) ==
    /\ activeTab[s] = "redeem"
    /\ ~DialogShown(s)
    /\ t \in Tiers
    /\ ~TierButtonDisabled(s, t)
    /\ selectedTier' = [selectedTier EXCEPT ![s] = t]
    /\ isDialogOpen' = [isDialogOpen EXCEPT ![s] = TRUE]
    /\ UNCHANGED fnVars
    /\ UNCHANGED << dbStats, dbWithdrawals, userStats, loadPc, tapUpdates,
                    redemptions, activeTab, paypalEmail, isProcessing, toast,
                    withdrawals, historyLoading, priorTaps, tapCount, attempts,
                    throws, gestures,
                    ignoredTaps >>

\* the Input's onChange
TypeEmail(s, e) ==
    /\ DialogShown(s)
    /\ e \in TypedEmails
    /\ e # paypalEmail[s]
    /\ paypalEmail' = [paypalEmail EXCEPT ![s] = e]
    /\ UNCHANGED fnVars
    /\ UNCHANGED << dbStats, dbWithdrawals, userStats, loadPc, tapUpdates,
                    redemptions, activeTab, selectedTier, isProcessing,
                    isDialogOpen, toast, withdrawals, historyLoading, priorTaps,
                    tapCount, attempts, throws, gestures,
                    ignoredTaps >>

\* Cancel, or the dialog's onOpenChange(false)
CloseDialog(s) ==
    /\ DialogShown(s)
    /\ isDialogOpen' = [isDialogOpen EXCEPT ![s] = FALSE]
    /\ UNCHANGED fnVars
    /\ UNCHANGED << dbStats, dbWithdrawals, userStats, loadPc, tapUpdates,
                    redemptions, activeTab, selectedTier, paypalEmail,
                    isProcessing, toast, withdrawals, historyLoading, priorTaps,
                    tapCount, attempts, throws, gestures,
                    ignoredTaps >>

\* the confirm Button: disabled={isProcessing || !paypalEmail.trim()}
ConfirmDisabled(s) == isProcessing[s] \/ Trim(paypalEmail[s]) = <<>>

TotalAttempts == attempts[1] + attempts[2]

\* handleRedeem up to its await, and updateWithdrawal up to its first await
\* (the pause); with userStats null updateWithdrawal returns false at once
HandleRedeem(s) ==
    /\ DialogShown(s)
    /\ ~ConfirmDisabled(s)
    /\ TotalAttempts < MaxAttempts
    /\ attempts' = [attempts EXCEPT ![s] = @ + 1]
    /\ IF MissingInformation(selectedTier[s], paypalEmail[s])
       THEN /\ toast' = [toast EXCEPT ![s] = "Missing Information"]
            /\ UNCHANGED << redemptions, isProcessing >>
       ELSE IF InsufficientCoins(Coins(s), selectedTier[s])
       THEN /\ toast' = [toast EXCEPT ![s] = "Insufficient Coins"]
            /\ UNCHANGED << redemptions, isProcessing >>
       ELSE IF userStats[s] = NoStats
       THEN /\ toast' = [toast EXCEPT ![s] = "Withdrawal Failed"]
            /\ UNCHANGED << redemptions, isProcessing >>
       ELSE /\ toast' = [toast EXCEPT ![s] = "Processing Withdrawal..."]
            /\ isProcessing' = [isProcessing EXCEPT ![s] = TRUE]
            /\ redemptions' = [redemptions EXCEPT ![s] = Append(@,
                   [stats |-> userStats[s], coins |-> Coins(s),
                    tier |-> selectedTier[s], paypalEmail |-> paypalEmail[s],
                    pc |-> "pause", created |-> 0, mounted |-> TRUE])]
    /\ gestures < MaxGestures
    /\ gestures' = gestures + 1
    /\ UNCHANGED fnVars
    /\ UNCHANGED << dbStats, dbWithdrawals, userStats, loadPc, tapUpdates,
                    activeTab, selectedTier, paypalEmail, isDialogOpen,
                    withdrawals, historyLoading, priorTaps, tapCount, throws,
                    ignoredTaps >>

WithdrawalCreated_UpdateFirst(s, i) ==
    /\ i \in DOMAIN redemptions[s]
    /\ redemptions[s][i].pc = "pause"
    /\ redemptions' = [redemptions EXCEPT ![s][i].pc = "update"]
    /\ UNCHANGED fnVars
    /\ UNCHANGED << dbStats, dbWithdrawals, userStats, loadPc, tapUpdates,
                    activeTab, selectedTier, paypalEmail, isProcessing,
                    isDialogOpen, toast, withdrawals, historyLoading, priorTaps,
                    tapCount, attempts, throws, gestures, ignoredTaps >>

\* updateWithdrawal: the 2000 ms pause is over and withdrawals.create has
\* answered; userStats.update is issued with the numbers computed from the
\* userStats the call captured
WithdrawalCreated(s, i) ==
    /\ i \in DOMAIN redemptions[s]
    /\ redemptions[s][i].pc = "pause"
    /\ dbWithdrawals' = Append(dbWithdrawals,
           WithdrawalRecord(redemptions[s][i].tier.amount,
                            redemptions[s][i].tier.coins,
                            redemptions[s][i].paypalEmail))
    /\ redemptions' = [redemptions EXCEPT ![s][i].pc = "update",
                                          ![s][i].created = @ + 1]
    /\ UNCHANGED fnVars
    /\ UNCHANGED << dbStats, userStats, loadPc, tapUpdates, activeTab,
                    selectedTier, paypalEmail, isProcessing, isDialogOpen, toast,
                    withdrawals, historyLoading, priorTaps, tapCount, attempts,
                    throws, gestures,
                    ignoredTaps >>

\* the store applies the update of updateWithdrawal
WithdrawalUpdateApplied(s, i) ==
    /\ i \in DOMAIN redemptions[s]
    /\ redemptions[s][i].pc = "update"
    /\ dbStats' = [dbStats EXCEPT ![redemptions[s][i].stats.id] =
           [totalCoins |-> NewCoinCount(redemptions[s][i].stats,
                                        redemptions[s][i].tier.coins),
            totalWithdrawn |-> NewTotalWithdrawn(redemptions[s][i].stats,
                                                 redemptions[s][i].tier.amount)]]
    /\ redemptions' = [redemptions EXCEPT ![s][i].pc = "applied"]
    /\ UNCHANGED fnVars
    /\ UNCHANGED << dbWithdrawals, userStats, loadPc, tapUpdates, activeTab,
                    selectedTier, paypalEmail, isProcessing, isDialogOpen, toast,
                    withdrawals, historyLoading, priorTaps, tapCount, attempts,
                    throws, gestures,
                    ignoredTaps >>

\* the update answers: setUserStats, return true; handleRedeem shows the
\* success toast, closes the dialog, clears the form; finally isProcessing
\* false (the component's setters do nothing once it is unmounted)
WithdrawalSucceeds(s, i) ==
    /\ i \in DOMAIN redemptions[s]
    /\ redemptions[s][i].pc = "applied"
    /\ userStats' = [userStats EXCEPT ![s] =
           [redemptions[s][i].stats EXCEPT
               !.totalCoins = NewCoinCount(redemptions[s][i].stats,
                                           redemptions[s][i].tier.coins),
               !.totalWithdrawn = NewTotalWithdrawn(redemptions[s][i].stats,
                                                    redemptions[s][i].tier.amount)]]
    /\ toast' = [toast EXCEPT ![s] = "Withdrawal Successful!"]
    /\ IF redemptions[s][i].mounted
       THEN /\ isDialogOpen' = [isDialogOpen EXCEPT ![s] = FALSE]
            /\ paypalEmail' = [paypalEmail EXCEPT ![s] = NoEmail]
            /\ selectedTier' = [selectedTier EXCEPT ![s] = NoTier]
            /\ isProcessing' = [isProcessing EXCEPT ![s] = FALSE]
       ELSE UNCHANGED << isDialogOpen, paypalEmail, selectedTier, isProcessing >>
    /\ redemptions' = [redemptions EXCEPT ![s] = RemoveAt(@, i)]
    /\ UNCHANGED fnVars
    /\ UNCHANGED << dbStats, dbWithdrawals, loadPc, tapUpdates, activeTab,
                    withdrawals, historyLoading, priorTaps, tapCount, attempts,
                    throws, gestures,
                    ignoredTaps >>

\* withdrawals.create or userStats.update throws: caught, return false;
\* handleRedeem shows the failure toast; finally isProcessing false
WithdrawalFails(s, i) ==
    /\ i \in DOMAIN redemptions[s]
    /\ redemptions[s][i].pc \in {"pause", "update"}
    /\ throws < MaxThrows
    /\ throws' = throws + 1
    /\ toast' = [toast EXCEPT ![s] = "Withdrawal Failed"]
    /\ IF redemptions[s][i].mounted
       THEN isProcessing' = [isProcessing EXCEPT ![s] = FALSE]
       ELSE UNCHANGED isProcessing
    /\ redemptions' = [redemptions EXCEPT ![s] = RemoveAt(@, i)]
    /\ UNCHANGED fnVars
    /\ UNCHANGED << dbStats, dbWithdrawals, userStats, loadPc, tapUpdates,
                    activeTab, selectedTier, paypalEmail, isDialogOpen,
                    withdrawals, historyLoading, priorTaps, tapCount, attempts, gestures,
                    ignoredTaps >>

Next ==
    \E s \in Sessions :
       \/ OpenApp(s)
       \/ LoadUserStatsList(s)
       \/ LoadUserStatsCreate(s)
       \/ LoadUserStatsThrows(s)
       \/ HandleTap(s)
       \/ \E i \in 1..MaxTaps : UpdateCoinsApplied(s, i)
       \/ \E i \in 1..MaxTaps : UpdateCoinsReturns(s, i)
       \/ \E i \in 1..MaxTaps : UpdateCoinsThrows(s, i)
       \/ \E t \in {"tap", "redeem", "history"} : SwitchTab(s, t)
       \/ LoadWithdrawals(s)
       \/ \E t \in Tiers : SelectTier(s, t)
       \/ \E e \in TypedEmails : TypeEmail(s, e)
       \/ CloseDialog(s)
       \/ HandleRedeem(s)
       \/ \E i \in 1..MaxAttempts : WithdrawalCreated(s, i)
       \/ \E i \in 1..MaxAttempts : WithdrawalUpdateApplied(s, i)
       \/ \E i \in 1..MaxAttempts : WithdrawalSucceeds(s, i)
       \/ \E i \in 1..MaxAttempts : WithdrawalFails(s, i)

Spec == Init /\ [][Next]_vars

\* the pause of updateWithdrawal ends and the store answers every call: an
\* attempt in flight is not left waiting for ever
FairSpec ==
    /\ Spec
    /\ \A s \in Sessions : \A i \in 1..MaxAttempts :
          /\ WF_vars(WithdrawalCreated(s, i))
          /\ WF_vars(WithdrawalUpdateApplied(s, i))
          /\ WF_vars(WithdrawalSucceeds(s, i))

(***************************************************************************)
(* The tier cards of RedeemCoins at balances on both sides of every tier's *)
(* cost: a user who tapped up to such a balance opens the application,     *)
(* taps, and looks at the redeem tab.                                      *)
(***************************************************************************)
TierBalances ==
    {0, 4900, 5000, 5100, 9900, 10000, 10100, 99900, 100000, 100100,
     999900, 1000000, 1000100}

TierInit ==
    /\ \E b \in TierBalances :
          /\ dbStats = << [totalCoins |-> b, totalWithdrawn |-> 0] >>
          /\ priorTaps = b \div TapReward
    /\ tapCount = priorTaps
    /\ ignoredTaps = 0
    /\ dbWithdrawals = <<>>
    /\ userStats = [s \in Sessions |-> NoStats]
    /\ loadPc = [s \in Sessions |-> "none"]
    /\ tapUpdates = [s \in Sessions |-> <<>>]
    /\ redemptions = [s \in Sessions |-> <<>>]
    /\ activeTab = [s \in Sessions |-> "tap"]
    /\ selectedTier = [s \in Sessions |-> NoTier]
    /\ paypalEmail = [s \in Sessions |-> NoEmail]
    /\ isProcessing = [s \in Sessions |-> FALSE]
    /\ isDialogOpen = [s \in Sessions |-> FALSE]
    /\ toast = [s \in Sessions |-> "none"]
    /\ withdrawals = [s \in Sessions |-> <<>>]
    /\ historyLoading = [s \in Sessions |-> FALSE]
    /\ attempts = [s \in Sessions |-> 0]
    /\ throws = 0
    /\ gestures = 0
    /\ PayoutIdle

TierNext ==
    \E s \in Sessions :
       \/ OpenApp(s)
       \/ LoadUserStatsList(s)
       \/ HandleTap(s)
       \/ \E i \in 1..MaxTaps : UpdateCoinsApplied(s, i)
       \/ \E i \in 1..MaxTaps : UpdateCoinsReturns(s, i)
       \/ \E t \in {"tap", "redeem", "history"} : SwitchTab(s, t)
       \/ LoadWithdrawals(s)
       \/ \E t \in Tiers : SelectTier(s, t)
       \/ CloseDialog(s)

TierSpec == TierInit /\ [][TierNext]_vars

(***************************************************************************)
(* The payout HTTP function (src/unnamed/part_000): the handler of serve.  *)
(***************************************************************************)
\* the application as deployed next to the function: nobody has opened it
AppIdle ==
    /\ dbStats = <<>>
    /\ priorTaps = 0
    /\ tapCount = 0
    /\ ignoredTaps = 0
    /\ dbWithdrawals = <<>>
    /\ userStats = [s \in Sessions |-> NoStats]
    /\ loadPc = [s \in Sessions |-> "none"]
    /\ tapUpdates = [s \in Sessions |-> <<>>]
    /\ redemptions = [s \in Sessions |-> <<>>]
    /\ activeTab = [s \in Sessions |-> "tap"]
    /\ selectedTier = [s \in Sessions |-> NoTier]
    /\ paypalEmail = [s \in Sessions |-> NoEmail]
    /\ isProcessing = [s \in Sessions |-> FALSE]
    /\ isDialogOpen = [s \in Sessions |-> FALSE]
    /\ toast = [s \in Sessions |-> "none"]
    /\ withdrawals = [s \in Sessions |-> <<>>]
    /\ historyLoading = [s \in Sessions |-> FALSE]
    /\ attempts = [s \in Sessions |-> 0]
    /\ throws = 0
    /\ gestures = 0

PayoutInit == AppIdle /\ PayoutIdle

\* a request arrives: the handler runs up to its first fetch (the token
\* request) or returns a Response before it
ServeRequest(req, env) ==
    /\ fnPc = "idle"
    /\ fnReq' = req
    /\ fnEnv' = env
    /\ fnBodyRead' = (req.method = "POST")
    /\ fnTokenResp' = "none"
    /\ fnPayoutResp' = NoPayoutResp
    /\ fnPayoutCalls' = 0
    /\ IF EarlyResponse(req, env) = NoResponse
       THEN /\ fnPc' = "token"
            /\ fnTokenCalls' = 1
            /\ fnResponse' = NoResponse
            /\ fnResponses' = 0
       ELSE /\ fnPc' = "done"
            /\ fnTokenCalls' = 0
            /\ fnResponse' = EarlyResponse(req, env)
            /\ fnResponses' = 1
    /\ UNCHANGED appVars

\* the token fetch ends: a Response is returned, or the payout is requested
TokenFetchEnds(outcome) ==
    /\ fnPc = "token"
    /\ fnTokenResp' = outcome
    /\ IF TokenResponse(outcome) = NoResponse
       THEN /\ fnPc' = "payout"
            /\ fnPayoutCalls' = fnPayoutCalls + 1
            /\ UNCHANGED << fnResponse, fnResponses >>
       ELSE /\ fnPc' = "done"
            /\ fnResponse' = TokenResponse(outcome)
            /\ fnResponses' = fnResponses + 1
            /\ UNCHANGED fnPayoutCalls
    /\ UNCHANGED << fnReq, fnEnv, fnBodyRead, fnTokenCalls, fnPayoutResp >>
    /\ UNCHANGED appVars

\* the payout fetch ends: a Response is returned
PayoutFetchEnds(outcome, batchId, batchStatus) ==
    /\ fnPc = "payout"
    /\ fnPayoutResp' = [outcome |-> outcome,
                        batchId |-> IF outcome = "ok" THEN batchId ELSE "",
                        batchStatus |-> IF outcome = "ok" THEN batchStatus ELSE ""]
    /\ fnPc' = "done"
    /\ fnResponse' = PayoutResponse(fnReq, outcome, batchId, batchStatus)
    /\ fnResponses' = fnResponses + 1
    /\ UNCHANGED << fnReq, fnEnv, fnBodyRead, fnTokenCalls, fnPayoutCalls,
                    fnTokenResp >>
    /\ UNCHANGED appVars

\* the invocation is over; the function waits for the next request
InvocationEnds ==
    /\ fnPc = "done"
    /\ fnPc' = "idle"
    /\ fnReq' = NoRequest
    /\ fnEnv' = NoEnvironment
    /\ fnBodyRead' = FALSE
    /\ fnTokenCalls' = 0
    /\ fnPayoutCalls' = 0
    /\ fnTokenResp' = "none"
    /\ fnPayoutResp' = NoPayoutResp
    /\ fnResponse' = NoResponse
    /\ fnResponses' = 0
    /\ UNCHANGED appVars

PayoutNext ==
    \/ \E req \in Requests : \E env \in Environments : ServeRequest(req, env)
    \/ \E outcome \in FetchOutcomes : TokenFetchEnds(outcome)
    \/ \E outcome \in FetchOutcomes : \E b \in GatewayBatchIds :
          \E st \in GatewayStatuses : PayoutFetchEnds(outcome, b, st)
    \/ InvocationEnds

PayoutSpec == PayoutInit /\ [][PayoutNext]_vars

(***************************************************************************)
(* Steps of a redemption attempt, as seen from the state before and after. *)
(***************************************************************************)
\* session s calls handleRedeem in this step
Attempted(s) == attempts'[s] = attempts[s] + 1

\* attempt i of session s moves from position "from" to position "to"
Moves(s, i, from, to) ==
    /\ i \in DOMAIN redemptions[s]
    /\ Len(redemptions'[s]) = Len(redemptions[s])
    /\ redemptions[s][i].pc = from
    /\ redemptions'[s][i].pc = to

\* attempt i of session s ends in this step (its handleRedeem returns)
Ends(s, i) ==
    /\ i \in DOMAIN redemptions[s]
    /\ redemptions'[s] = RemoveAt(redemptions[s], i)

AttemptIndices == 1..(MaxAttempts + 1)

(***************************************************************************)
(* C1.  In every reachable state, after any interleaving of taps and       *)
(* redemption attempts (successful, rejected or failed), the coin balance  *)
(* is never negative: neither totalCoins of a persisted userStats record   *)
(* nor totalCoins of a session's local userStats.                          *)
(***************************************************************************)
C1_BalanceNeverNegative ==
    /\ \A i \in DOMAIN dbStats : dbStats[i].totalCoins >= 0
    /\ \A s \in Sessions : userStats[s].totalCoins >= 0

\* taps, a failed attempt and a completed redemption have all happened, and
\* the redemption took the whole balance
C1_Witness ==
    \E s \in Sessions :
       /\ tapCount > priorTaps
       /\ attempts[s] = 2
       /\ throws = 1
       /\ Len(dbWithdrawals) = 1
       /\ toast[s] = "Withdrawal Successful!"
       /\ userStats[s] # NoStats
       /\ userStats[s].totalCoins = 0
       /\ dbStats[userStats[s].id].totalCoins = 0

(***************************************************************************)
(* C2.  For every tier t and every balance b >= t.coins with a non-empty   *)
(* email, a redemption whose persistence calls all succeed returns         *)
(* success, leaves the balance at exactly b - t.coins, increases           *)
(* cumulative withdrawn by exactly t.amount and appends exactly one        *)
(* withdrawal record with status 'completed', coinsSpent = t.coins and     *)
(* amount = t.amount.  b and the cumulative withdrawn before are those of  *)
(* the userStats the attempt is called with.  As steps:                    *)
(*  - a call with b >= t.coins and a non-empty email enters the pipeline;  *)
(*  - the record appended for it is the one described;                     *)
(*  - the update it applies writes b - t.coins and withdrawn + t.amount;   *)
(*  - it ends only by a persistence call that throws or by success, and    *)
(*    on success it has appended exactly one record and the session's      *)
(*    userStats hold b - t.coins and withdrawn + t.amount.                 *)
(***************************************************************************)
C2_Enters(s) ==
    (/\ Attempted(s)
     /\ selectedTier[s] \in Tiers
     /\ Coins(s) >= selectedTier[s].coins
     /\ Trim(paypalEmail[s]) # <<>>)
    => /\ Len(redemptions'[s]) = Len(redemptions[s]) + 1
       /\ LET r == redemptions'[s][Len(redemptions'[s])]
          IN  /\ r.pc = "pause"
              /\ r.coins = Coins(s)
              /\ r.stats = userStats[s]
              /\ r.tier = selectedTier[s]
              /\ r.paypalEmail = paypalEmail[s]
              /\ r.created = 0

C2_Appends(s, i) ==
    Moves(s, i, "pause", "update")
    => LET r == redemptions[s][i]
       IN  /\ dbWithdrawals' = Append(dbWithdrawals,
                  [amount |-> r.tier.amount, coinsSpent |-> r.tier.coins,
                   paypalEmail |-> r.paypalEmail, status |-> "completed"])
           /\ redemptions'[s][i].created = 1

C2_Writes(s, i) ==
    Moves(s, i, "update", "applied")
    => LET r == redemptions[s][i]
       IN  /\ dbStats'[r.stats.id].totalCoins = r.coins - r.tier.coins
           /\ dbStats'[r.stats.id].totalWithdrawn =
                  r.stats.totalWithdrawn + r.tier.amount
           /\ dbWithdrawals' = dbWithdrawals

C2_Returns(s, i) ==
    (Ends(s, i) /\ throws' = throws)
    => LET r == redemptions[s][i]
       IN  /\ r.pc = "applied"
           /\ r.created = 1
           /\ toast'[s] = "Withdrawal Successful!"
           /\ userStats'[s].totalCoins = r.coins - r.tier.coins
           /\ userStats'[s].totalWithdrawn = r.stats.totalWithdrawn + r.tier.amount
           /\ userStats'[s].id = r.stats.id
           /\ dbWithdrawals' = dbWithdrawals

C2_RedeemYieldsExactUpdate ==
    [][\A s \in Sessions :
          /\ C2_Enters(s)
          /\ \A i \in AttemptIndices :
                C2_Appends(s, i) /\ C2_Writes(s, i) /\ C2_Returns(s, i)]_vars

\* the end-to-end scenario: balance 10000, tier 10000 -> $5, a@b.com
C2_Witness ==
    \E s \in Sessions :
       /\ toast[s] = "Withdrawal Successful!"
       /\ userStats[s] = [id |-> 1, totalCoins |-> 0, totalWithdrawn |-> 5]
       /\ dbStats = << [totalCoins |-> 0, totalWithdrawn |-> 5] >>
       /\ dbWithdrawals = << [amount |-> 5, coinsSpent |-> 10000,
                              paypalEmail |-> ValidEmail, status |-> "completed"] >>

(***************************************************************************)
(* C3.  For every tier t and every balance b < t.coins a redemption        *)
(* attempt is rejected: balance and cumulative withdrawn are unchanged     *)
(* (persisted and local), no withdrawal record is created and the payout   *)
(* step (the pause of the simulated payout) is never entered.              *)
(***************************************************************************)
C3_InsufficientRejected ==
    [][\A s \in Sessions :
          (/\ Attempted(s)
           /\ selectedTier[s] \in Tiers
           /\ Coins(s) < selectedTier[s].coins)
          => /\ dbStats' = dbStats
             /\ dbWithdrawals' = dbWithdrawals
             /\ userStats' = userStats
             /\ redemptions' = redemptions
             /\ isProcessing' = isProcessing
             /\ toast'[s] \in {"Insufficient Coins", "Missing Information"}]_vars

\* an attempt was rejected for its balance: the session holds less than the
\* tier it has selected and the dialog is still open
C3_Witness ==
    \E s \in Sessions :
       /\ toast[s] = "Insufficient Coins"
       /\ attempts[s] > 0
       /\ selectedTier[s] \in Tiers
       /\ Coins(s) < selectedTier[s].coins

(***************************************************************************)
(* C4.  In the redemption pipeline, for every tier, a destination email    *)
(* that is empty or does not match the basic local@domain.tld pattern      *)
(* (e.g. "notanemail") is rejected before the payout step is entered,      *)
(* with no balance change and no withdrawal record; the email check        *)
(* precedes the balance check.                                             *)
(***************************************************************************)
C4_InvalidEmailRejected ==
    [][\A s \in Sessions :
          (/\ Attempted(s)
           /\ \/ Trim(paypalEmail[s]) = <<>>
              \/ ~EmailRegexTest(paypalEmail[s]))
          => /\ redemptions' = redemptions
             /\ isProcessing' = isProcessing
             /\ dbStats' = dbStats
             /\ dbWithdrawals' = dbWithdrawals
             /\ userStats' = userStats
             /\ toast'[s] = "Missing Information"]_vars

(***************************************************************************)
(* C5.  Whenever a redemption attempt reports failure to its caller        *)
(* (updateWithdrawal returns false, including when withdrawals.create or   *)
(* userStats.update throws), the persisted balance and cumulative          *)
(* withdrawn are unchanged and no withdrawal record has been created by    *)
(* that attempt.                                                           *)
(***************************************************************************)
C5_FailureLeavesNoTrace ==
    [][\A s \in Sessions : \A i \in AttemptIndices :
          (Ends(s, i) /\ toast'[s] = "Withdrawal Failed")
          => /\ redemptions[s][i].created = 0
             /\ redemptions[s][i].pc # "applied"
             /\ dbStats' = dbStats
             /\ dbWithdrawals' = dbWithdrawals]_vars

(***************************************************************************)
(* C6.  The balance is a running total: for a user starting at 0, once    *)
(* all outstanding operations have settled, after any interleaving of n    *)
(* tap events and any set of completed withdrawals, the persisted balance  *)
(* equals 100 * n minus the sum of coinsSpent over the user's withdrawal   *)
(* records: no tap is lost and no spent coins are restored.  (Stated for   *)
(* the runs in which no persistence call threw, every tap was made after   *)
(* the session had loaded its userStats and the user has one userStats     *)
(* record.)                                                                *)
(***************************************************************************)
Settled ==
    \A s \in Sessions :
       /\ tapUpdates[s] = <<>>
       /\ redemptions[s] = <<>>
       /\ loadPc[s] \in {"none", "done"}

C6_BalanceIsRunningTotal ==
    (Settled /\ throws = 0 /\ ignoredTaps = 0 /\ Len(dbStats) = 1)
    => dbStats[1].totalCoins = 100 * tapCount - SumCoinsSpent(dbWithdrawals)

(***************************************************************************)
(* C7.  At most one userStats record exists per user in every reachable    *)
(* state: lazy creation on first access never produces a second record     *)
(* for the same user, also when two loads for the same user overlap.       *)
(***************************************************************************)
C7_OneStatsRecordPerUser == Len(dbStats) <= 1

(***************************************************************************)
(* C8.  The withdrawal records are append-only in the shipped flow: once   *)
(* created a record is never modified or removed by any operation, and     *)
(* every record that exists has status 'completed'.                        *)
(***************************************************************************)
C8_WithdrawalsAppendOnly ==
    [][/\ Len(dbWithdrawals') >= Len(dbWithdrawals)
       /\ SubSeq(dbWithdrawals', 1, Len(dbWithdrawals)) = dbWithdrawals
       /\ \A k \in DOMAIN dbWithdrawals' :
             dbWithdrawals'[k].status = "completed"]_vars

\* two records exist and the history tab of a session has listed both of
\* them, newest first
C8_Witness ==
    \E s \in Sessions :
       /\ Len(dbWithdrawals) = 2
       /\ activeTab[s] = "history"
       /\ Len(withdrawals[s]) = 2
       /\ withdrawals[s][1] = dbWithdrawals[2]
       /\ withdrawals[s][2] = dbWithdrawals[1]

(***************************************************************************)
(* C9.  In the payout HTTP function, a POST with valid fields is answered  *)
(* 500 when the gateway credentials are unconfigured or when either        *)
(* gateway call (token or payout) returns non-2xx, and is answered 200     *)
(* {success: true, batchId, status, message} only when both gateway calls  *)
(* returned 2xx, with batchId and status equal to the values the gateway   *)
(* returned.                                                               *)
(***************************************************************************)
ValidPost ==
    /\ fnReq.method = "POST"
    /\ fnReq.parses
    /\ fnReq.email = Present(ValidEmail)
    /\ fnReq.amount.present /\ fnReq.amount.value > 0
    /\ fnReq.coins.present /\ fnReq.coins.value > 0
    /\ fnReq.userId = Present("u1")

C9_PayoutStatusMapping ==
    (fnPc = "done" /\ ValidPost)
    => /\ (fnEnv.clientId = "" \/ fnEnv.clientSecret = "")
             => fnResponse.status = 500
       /\ fnTokenResp = "notOk" => fnResponse.status = 500
       /\ fnPayoutResp.outcome = "notOk" => fnResponse.status = 500
       /\ fnResponse.status = 200
             => /\ fnEnv.clientId # "" /\ fnEnv.clientSecret # ""
                /\ fnTokenResp \in {"ok", "okBadBody"}
                /\ fnPayoutResp.outcome \in {"ok", "okBadBody"}
                /\ fnResponse.body.success
                /\ fnResponse.body.batchId = fnPayoutResp.batchId
                /\ fnResponse.body.batchStatus = fnPayoutResp.batchStatus
                /\ fnResponse.body.batchId \in GatewayBatchIds
                /\ fnResponse.body.batchStatus \in GatewayStatuses

\* a valid POST was answered 200 with the batch the gateway named
C9_Witness ==
    /\ fnPc = "done"
    /\ ValidPost
    /\ fnResponse.status = 200
    /\ fnResponse.body.success
    /\ fnResponse.body.batchId = "BATCH2"
    /\ fnResponse.body.batchStatus = "PENDING"
    /\ fnPayoutResp = [outcome |-> "ok", batchId |-> "BATCH2",
                       batchStatus |-> "PENDING"]

(***************************************************************************)
(* C10.  In the payout HTTP function the payout request is issued only     *)
(* after a 2xx token response: a token-fetch failure ends the request      *)
(* with a reported failure and no payout call, and per invocation at most  *)
(* one token request and at most one payout request are ever issued.       *)
(***************************************************************************)
C10_PayoutOnlyAfterToken ==
    /\ fnTokenCalls <= 1
    /\ fnPayoutCalls <= 1
    /\ fnPayoutCalls > 0 => (fnTokenCalls = 1 /\ fnTokenResp = "ok")
    /\ fnPc = "payout" => fnPayoutCalls = 1
    /\ (fnTokenResp \in {"notOk", "throws"})
          => /\ fnPc = "done"
             /\ fnPayoutCalls = 0
             /\ fnPayoutResp = NoPayoutResp
             /\ fnResponse.status = 500
             /\ ~fnResponse.body.success
             /\ fnResponse.body.error # ""

\* the token request came back non-2xx: the failure is reported and no
\* payout was requested
C10_Witness ==
    /\ fnPc = "done"
    /\ fnTokenCalls = 1
    /\ fnTokenResp = "notOk"
    /\ fnPayoutCalls = 0
    /\ fnResponse = ErrorResponse(500, "Failed to authenticate with PayPal")

(***************************************************************************)
(* C11.  In the payout HTTP function, a POST whose body lacks any of       *)
(* email, amount, coins, userId, or whose email does not match the         *)
(* local@domain.tld pattern, is answered 400 with no gateway call issued,  *)
(* whether or not the gateway credentials are configured.  The body is one *)
(* that req.json() returns.                                                *)
(***************************************************************************)
LacksField ==
    \/ ~fnReq.email.present
    \/ ~fnReq.amount.present
    \/ ~fnReq.coins.present
    \/ ~fnReq.userId.present

C11_InvalidPostAnswered400 ==
    (/\ fnReq.method = "POST"
     /\ fnReq.parses
     /\ LacksField \/ ~EmailRegexTest(fnReq.email.value))
    => /\ fnPc = "done"
       /\ fnResponse.status = 400
       /\ fnResponse.body.error # ""
       /\ ~fnResponse.body.success
       /\ fnResponses = 1
       /\ fnTokenCalls = 0
       /\ fnPayoutCalls = 0
       /\ fnTokenResp = "none"
       /\ fnPayoutResp = NoPayoutResp

\* no credentials are configured and the email has no top-level domain: the
\* answer is 400, not the 500 of the credentials check
C11_Witness ==
    /\ fnPc = "done"
    /\ fnReq.method = "POST"
    /\ fnReq.parses
    /\ fnReq.email = Present(NoDotEmail)
    /\ ~LacksField
    /\ ~MissingFields(fnReq)
    /\ CredentialsMissing(fnEnv)
    /\ fnResponse = ErrorResponse(400, "Invalid email format")
    /\ fnTokenCalls = 0
    /\ fnPayoutCalls = 0

(***************************************************************************)
(* C12.  In the payout HTTP function, an OPTIONS request is answered with  *)
(* status 204 and permissive CORS headers allowing methods POST, OPTIONS,  *)
(* without reading the body or contacting the gateway.                     *)
(***************************************************************************)
C12_PreflightAnswered204 ==
    fnReq.method = "OPTIONS"
    => /\ fnPc = "done"
       /\ fnResponse.status = 204
       /\ fnResponse.headers.allowOrigin = "*"
       /\ fnResponse.headers.allowMethods = "POST, OPTIONS"
       /\ ~fnBodyRead
       /\ fnTokenCalls = 0
       /\ fnPayoutCalls = 0

(***************************************************************************)
(* C13.  In the payout HTTP function, any exception raised while handling  *)
(* a POST (unparseable body, a gateway call that throws instead of         *)
(* returning a response, an unparseable gateway response) is caught at the *)
(* top level and answered with 500 {error: "Internal server error",        *)
(* details}; every request receives exactly one response.                  *)
(***************************************************************************)
Threw ==
    /\ fnReq.method = "POST"
    /\ \/ ~fnReq.parses
       \/ fnTokenResp \in {"throws", "okBadBody"}
       \/ fnPayoutResp.outcome \in {"throws", "okBadBody"}

C13_ExceptionsAnswered500 ==
    /\ fnResponses = (IF fnPc = "done" THEN 1 ELSE 0)
    /\ (fnPc = "done") <=> (fnResponse # NoResponse)
    /\ Threw
       => /\ fnPc = "done"
          /\ fnResponse.status = 500
          /\ fnResponse.body.error = "Internal server error"
          /\ fnResponse.body.details # ""
          /\ ~fnResponse.body.success

\* the token was granted and the payout fetch rejected: one response, the
\* 500 of the catch block
C13_Witness ==
    /\ fnPc = "done"
    /\ ValidPost
    /\ fnTokenResp = "ok"
    /\ fnPayoutCalls = 1
    /\ fnPayoutResp.outcome = "throws"
    /\ fnResponse = CaughtResponse("fetch")
    /\ fnResponses = 1

(***************************************************************************)
(* C14.  For all balances b and all four tiers t, canAfford(b, t.coins)    *)
(* is true exactly when b >= t.coins; the tier's redeem trigger is enabled *)
(* exactly when the tier is affordable (and only an enabled trigger        *)
(* selects its tier), and the progress metric is min(b / t.coins, 1.0) as  *)
(* a percentage capped at 100, reaching its cap exactly when the tier is   *)
(* affordable.                                                             *)
(***************************************************************************)
Smaller(a, b) == IF a < b THEN a ELSE b

C14_TierCard(b, t) ==
    LET progress == getProgressPercentage(b, t.coins) IN
    /\ canAfford(b, t.coins) <=> (b >= t.coins)
    /\ progress.den \in {1, t.coins}
    /\ progress.num * (t.coins \div progress.den) = 100 * Smaller(b, t.coins)
    /\ (progress.num = 100 * progress.den) <=> canAfford(b, t.coins)

C14_AffordableAndProgress ==
    /\ [](\A s \in Sessions : \A t \in Tiers :
             /\ C14_TierCard(Coins(s), t)
             /\ ~TierButtonDisabled(s, t) <=> canAfford(Coins(s), t.coins))
    /\ [][\A s \in Sessions :
             (selectedTier'[s] # selectedTier[s] /\ selectedTier'[s] # NoTier)
             => /\ selectedTier'[s] \in Tiers
                /\ Coins(s) >= selectedTier'[s].coins]_vars

\* a tap took the balance from just below the second tier's cost to exactly
\* that cost, and the second tier's trigger was used
C14_Witness ==
    \E s \in Sessions :
       /\ priorTaps = 99
       /\ userStats[s] # NoStats
       /\ Coins(s) = 10000
       /\ activeTab[s] = "redeem"
       /\ isDialogOpen[s]
       /\ selectedTier[s] = redeemTiers[2]
       /\ getProgressPercentage(Coins(s), redeemTiers[2].coins).num = 100
       /\ getProgressPercentage(Coins(s), redeemTiers[3].coins)
             = [num |-> 1000000, den |-> 100000]
       /\ TierButtonDisabled(s, redeemTiers[3])

(***************************************************************************)
(* C15.  At most one redemption attempt is in flight at any time in a      *)
(* session: from the moment an attempt passes validation until it          *)
(* terminates, the processing flag is set and the confirm trigger (for     *)
(* every tier) is disabled, so no second call to the withdrawal operation  *)
(* can start before the first has returned.  The flag and the trigger are  *)
(* those of the RedeemCoins the session shows.                             *)
(***************************************************************************)
InFlight(s) == Len(redemptions[s])

C15_OneAttemptInFlight ==
    \A s \in Sessions :
       /\ InFlight(s) <= 1
       /\ (InFlight(s) = 1 /\ activeTab[s] = "redeem")
             => (isProcessing[s] /\ ConfirmDisabled(s))

(***************************************************************************)
(* C16.  Every redemption attempt follows Idle -> Validating -> Rejected,  *)
(* or Idle -> Validating -> AwaitingGateway -> (Completed | Failed): a     *)
(* rejected attempt never enters AwaitingGateway and never sets the        *)
(* processing flag, and every attempt that enters AwaitingGateway          *)
(* eventually (given that the pause and the persistence calls return or    *)
(* throw) reaches Completed or Failed, after which the processing flag is  *)
(* false again.                                                            *)
(***************************************************************************)
\* Validating: the call is rejected by a guard, or enters the pipeline
C16_Validates ==
    [][\A s \in Sessions :
          Attempted(s)
          => IF \/ MissingInformation(selectedTier[s], paypalEmail[s])
                \/ InsufficientCoins(Coins(s), selectedTier[s])
             THEN /\ redemptions' = redemptions
                  /\ isProcessing' = isProcessing
                  /\ dbStats' = dbStats
                  /\ dbWithdrawals' = dbWithdrawals
                  /\ toast'[s] \in {"Missing Information", "Insufficient Coins"}
             ELSE /\ Len(redemptions'[s]) = Len(redemptions[s]) + 1
                  /\ redemptions'[s][Len(redemptions'[s])].pc = "pause"
                  /\ isProcessing'[s]]_vars

\* AwaitingGateway: the attempt only moves forward, and when it ends it is
\* Completed or Failed and the processing flag is false
C16_Progresses ==
    [][\A s \in Sessions :
          /\ Len(redemptions'[s]) > Len(redemptions[s]) => Attempted(s)
          /\ \A i \in DOMAIN redemptions[s] :
                /\ (/\ Len(redemptions'[s]) = Len(redemptions[s])
                    /\ redemptions'[s][i].pc # redemptions[s][i].pc)
                      => << redemptions[s][i].pc, redemptions'[s][i].pc >>
                            \in {<<"pause", "update">>, <<"update", "applied">>}
                /\ (Ends(s, i) /\ Len(redemptions[s]) = 1)
                      => /\ toast'[s] \in {"Withdrawal Successful!",
                                           "Withdrawal Failed"}
                         /\ (toast'[s] = "Withdrawal Successful!")
                               <=> (redemptions[s][i].pc = "applied")
                /\ Ends(s, i) => ~isProcessing'[s]]_vars

\* every attempt in flight ends
C16_Terminates ==
    \A s \in Sessions : (Len(redemptions[s]) > 0) ~> (Len(redemptions[s]) = 0)

C16_AttemptStateMachine ==
    /\ C16_Validates
    /\ C16_Progresses
    /\ C16_Terminates

(***************************************************************************)
(* C17.  Within a redemption attempt the withdrawal record is appended     *)
(* before the balance update is issued: in every reachable state           *)
(* (including a crash or a failure between the two persistence calls), if  *)
(* the persisted balance or cumulative withdrawn reflects an attempt then  *)
(* that attempt's withdrawal record exists; a deduction without a record   *)
(* is unreachable.                                                         *)
(***************************************************************************)
RECURSIVE SumAmount(_)
SumAmount(q) == IF q = <<>> THEN 0 ELSE Head(q).amount + SumAmount(Tail(q))

\* the record of an attempt is among the persisted withdrawals
RecordExists(a) ==
    \E k \in DOMAIN dbWithdrawals :
       dbWithdrawals[k] = WithdrawalRecord(a.tier.amount, a.tier.coins,
                                           a.paypalEmail)

C17_RecordBeforeDeduction ==
    /\ [](/\ \A s \in Sessions : \A i \in DOMAIN redemptions[s] :
                redemptions[s][i].pc \in {"update", "applied"}
                => (redemptions[s][i].created = 1
                    /\ RecordExists(redemptions[s][i]))
          /\ \A k \in DOMAIN dbStats :
                /\ dbStats[k].totalWithdrawn <= SumAmount(dbWithdrawals)
                /\ dbStats[k].totalWithdrawn > 0 => Len(dbWithdrawals) > 0)
    /\ [][\A k \in DOMAIN dbStats :
             dbStats'[k].totalWithdrawn # dbStats[k].totalWithdrawn
             => \E s \in Sessions : \E i \in DOMAIN redemptions[s] :
                   /\ Moves(s, i, "update", "applied")
                   /\ RecordExists(redemptions[s][i])
                   /\ dbWithdrawals' = dbWithdrawals]_vars

\* an attempt failed between its two persistence calls (its record stays,
\* nothing was deducted), and the next attempt went through: two records,
\* one deduction
C17_Witness ==
    /\ throws = 1
    /\ Len(dbWithdrawals) = 2
    /\ Len(dbStats) = 1
    /\ dbStats[1] = [totalCoins |-> 4800, totalWithdrawn |-> 1]
    /\ \A s \in Sessions : redemptions[s] = <<>> /\ tapUpdates[s] = <<>>
    /\ \E s \in Sessions : attempts[s] = 2 /\ toast[s] = "Withdrawal Successful!"

(***************************************************************************)
(* C18.  Once all outstanding tap updates and redemption attempts of a     *)
(* single session have settled without persistence errors, the session's   *)
(* local userStats (totalCoins and totalWithdrawn) equals the persisted    *)
(* userStats record, for every order in which the persistence calls'       *)
(* responses arrive.                                                       *)
(***************************************************************************)
\* s is the only session that opened the application, it has loaded its
\* record, and none of its calls is outstanding
AloneAndSettled(s) ==
    /\ \A o \in Sessions \ {s} : loadPc[o] = "none"
    /\ loadPc[s] = "done"
    /\ userStats[s] # NoStats
    /\ tapUpdates[s] = <<>>
    /\ redemptions[s] = <<>>
    /\ throws = 0

C18_LocalEqualsPersisted ==
    \A s \in Sessions :
       AloneAndSettled(s)
       => /\ userStats[s].id \in DOMAIN dbStats
          /\ userStats[s].totalCoins = dbStats[userStats[s].id].totalCoins
          /\ userStats[s].totalWithdrawn
                = dbStats[userStats[s].id].totalWithdrawn

====
